---- MODULE Spec2Model ----
(***************************************************************************)
(* One run of the crime-data explorer script app.py, top to bottom.        *)
(* Column labels are sequences of one-character strings so that the        *)
(* label clean-up of line 31 is computed character by character.  A CSV    *)
(* file is a header and rows of text fields; read_csv's type inference,    *)
(* to_numeric, dropna, groupby/sum, sorting and head are computed as the   *)
(* library computes them on these tables.                                  *)
(***************************************************************************)
EXTENDS Integers, Sequences, FiniteSets, TLC

(* ------------------------------ bounds --------------------------------- *)
\* rows of a generated CSV file
MaxRows == 2
\* characters of a generated free-form header
MaxHdrLen == 3

(* --------------------------- label strings ----------------------------- *)
LowerCase == <<"a","b","c","d","e","f","g","h","i","j","k","l","m",
               "n","o","p","q","r","s","t","u","v","w","x","y","z">>
UpperCase == <<"A","B","C","D","E","F","G","H","I","J","K","L","M",
               "N","O","P","Q","R","S","T","U","V","W","X","Y","Z">>
Whitespace == {" ", "\t", "\n", "\r"}

N_STATE_UT == <<"S","T","A","T","E","/","U","T">>
N_STATES_UTS == <<"S","T","A","T","E","S","/","U","T","S">>
N_STATE == <<"S","T","A","T","E">>
N_DISTRICT == <<"D","I","S","T","R","I","C","T">>
N_YEAR == <<"Y","E","A","R">>
N_TOTAL_COGNIZABLE == <<"T","O","T","A","L"," ","C","O","G","N","I","Z","A","B","L","E"," ","I","P","C"," ","C","R","I","M","E","S">>
N_TOTAL_IPC == <<"T","O","T","A","L"," ","I","P","C"," ","C","R","I","M","E","S">>
N_MURDER == <<"M","U","R","D","E","R">>
N_RAPE == <<"R","A","P","E">>

\* str.upper() on one character
UpperChar(c) ==
  IF \E i \in 1..Len(LowerCase) : LowerCase[i] = c
  THEN UpperCase[CHOOSE i \in 1..Len(LowerCase) : LowerCase[i] = c]
  ELSE c

RECURSIVE LStrip(_)
LStrip(s) == IF s # <<>> /\ Head(s) \in Whitespace THEN LStrip(Tail(s)) ELSE s

RECURSIVE RStrip(_)
RStrip(s) ==
  IF s # <<>> /\ s[Len(s)] \in Whitespace THEN RStrip(SubSeq(s, 1, Len(s) - 1)) ELSE s

\* str.strip()
StrStrip(s) == RStrip(LStrip(s))

\* str.replace(ch, '')
StrRemove(s, ch) == SelectSeq(s, LAMBDA c : c # ch)

\* str.upper()
StrUpper(s) == [i \in 1..Len(s) |-> UpperChar(s[i])]

\* variant: the carriage returns are left in the label
StandardizeLabel_NoCR(s) == StrUpper(StrRemove(StrStrip(s), "\n"))

\* line 31: .str.strip().str.replace('\n', '').str.replace('\r', '').str.upper()
StandardizeLabel(s) == StrUpper(StrRemove(StrRemove(StrStrip(s), "\n"), "\r"))

\* lines 34-41: rename_map applied by df.rename(columns=rename_map)
rename_map(c) ==
  CASE c = N_STATES_UTS -> N_STATE_UT
    [] c = N_STATE -> N_STATE_UT
    [] c = N_DISTRICT -> N_DISTRICT
    [] c = N_YEAR -> N_YEAR
    [] c = N_TOTAL_COGNIZABLE -> N_TOTAL_IPC
    [] OTHER -> c

(* ------------------------------- cells --------------------------------- *)
\* a text field of a CSV file
NumF(n) == [k |-> "numtxt", n |-> n, s |-> ""]
TxtF(s) == [k |-> "text", n |-> 0, s |-> s]
EmptyF == [k |-> "empty", n |-> 0, s |-> ""]

\* a cell of the data frame: a number, a string holding a number's text,
\* any other string, or NaN
Num(n) == [k |-> "num", n |-> n, s |-> ""]
NumStr(n) == [k |-> "numstr", n |-> n, s |-> ""]
Str(s) == [k |-> "str", n |-> 0, s |-> s]
NaN == [k |-> "nan", n |-> 0, s |-> ""]
\* what st.selectbox returns for an empty option list
None == [k |-> "none", n |-> 0, s |-> ""]

\* pd.to_numeric(..., errors='coerce') on one cell
to_numeric(c) == IF c.k \in {"num", "numstr"} THEN Num(c.n) ELSE NaN

\* the strings of the generated files, in Python's string order
StrOrder == <<"ALL", "Assam", "Bihar", "Goa", "Kerala", "North",
              "Punjab", "Sikkim", "South", "Tripura", "x">>
StrIdx(s) == CHOOSE i \in 1..Len(StrOrder) : StrOrder[i] = s

\* Python's < on two values of one column
CellLess(a, b) ==
  IF a.k = "str" /\ b.k = "str" THEN StrIdx(a.s) < StrIdx(b.s) ELSE a.n < b.n

\* sorted(...) of a set of values
RECURSIVE sorted(_)
sorted(S) ==
  IF S = {} THEN <<>>
  ELSE LET m == CHOOSE x \in S : \A y \in S : ~CellLess(y, x)
       IN <<m>> \o sorted(S \ {m})

Range(f) == {f[i] : i \in DOMAIN f}

(* ----------------------------- data frame ------------------------------ *)
\* the positions of the columns labelled name
ColsNamed(d, name) == {j \in 1..Len(d.columns) : d.columns[j] = name}

\* name in df.columns
HasCol(d, name) == ColsNamed(d, name) # {}

\* df[name] is a Series only when the label is unique; with a repeated label it
\* is a DataFrame, on which to_numeric raises and .unique does not exist
IsSeries(d, name) == Cardinality(ColsNamed(d, name)) = 1

Col(d, name) == CHOOSE j \in ColsNamed(d, name) : TRUE

\* df[name] = value (a new column holding one value in every row)
AddColumn(d, name, value, dtype) ==
  [columns |-> Append(d.columns, name),
   rows |-> [i \in 1..Len(d.rows) |-> Append(d.rows[i], value)],
   dtypes |-> Append(d.dtypes, dtype)]

\* df[name] = pd.to_numeric(df[name], errors='coerce')
CoerceColumn(d, name) ==
  LET j == Col(d, name)
  IN [d EXCEPT !.rows = [i \in 1..Len(d.rows) |->
                           [d.rows[i] EXCEPT ![j] = to_numeric(d.rows[i][j])]],
               !.dtypes = [d.dtypes EXCEPT ![j] = "num"]]

\* pd.read_csv: a column whose fields are all numbers or empty is numeric,
\* any other column holds the fields' text; an empty field is NaN
read_csv(csv) ==
  LET ncols == Len(csv.header)
      nrows == Len(csv.rows)
      numeric(j) == nrows > 0 /\ \A i \in 1..nrows : csv.rows[i][j].k \in {"numtxt", "empty"}
      cell(f, j) == IF f.k = "empty" THEN NaN
                    ELSE IF numeric(j) THEN Num(f.n)
                    ELSE IF f.k = "numtxt" THEN NumStr(f.n)
                    ELSE Str(f.s)
  IN [columns |-> csv.header,
      rows |-> [i \in 1..nrows |-> [j \in 1..ncols |-> cell(csv.rows[i][j], j)]],
      dtypes |-> [j \in 1..ncols |-> IF numeric(j) THEN "num" ELSE "obj"]]

NoDf == [columns |-> <<>>, rows |-> <<>>, dtypes |-> <<>>]

(* ------------------------- the files on disk --------------------------- *)
H_StatesUTs == <<"S","t","a","t","e","s","/","U","T","s">>
H_State == <<" ","S","t","a","t","e">>
H_STATE_UT == <<"S","T","A","T","E","/","U","T">>
H_District == <<"D","i","s","t","r","i","c","t">>
H_district == <<"d","i","s","t","r","i","c","t","\n">>
H_Year == <<"Y","e","a","r">>
H_YEAR == <<"\r","Y","E","A","R"," ">>
H_Murder == <<"M","u","r","d","e","r">>
H_Rape == <<"R","a","p","e">>
H_TotalCognizable == <<"T","o","t","a","l"," ","C","o","g","n","i","z","a","b","l","e"," ","I","P","C"," ","c","r","i","m","e","s">>
H_TotalIPC == <<"T","O","T","A","L"," ","I","P","C"," ","C","R","I","M","E","S","\n">>

\* the names a directory entry can have; only the first ends with '.csv'
FileNames == { <<"a",".","c","s","v">>, <<"b",".","C","S","V">>, <<"c","s","v",".","t","x","t">> }

\* f.endswith(suffix)
EndsWith(f, suffix) ==
  Len(f) >= Len(suffix) /\ SubSeq(f, Len(f) - Len(suffix) + 1, Len(f)) = suffix

\* sequences over pool of length at most n
SeqsUpTo(pool, n) == UNION {[1..k -> pool] : k \in 0..n}

\* free-form headers: every string of 1..MaxHdrLen characters over a small alphabet
HdrAlphabet == {"a", "B", " ", "\n", "\r"}
HdrStrings == UNION {[1..k -> HdrAlphabet] : k \in 1..MaxHdrLen}
HeaderFiles ==
  {[header |-> <<h>>, rows |-> <<>>] : h \in HdrStrings}
    \cup {[header |-> <<H_State, h>>, rows |-> <<>>] : h \in HdrStrings}

\* layouts with and without the optional columns, and with labels that collide
\* after the clean-up, each with no row or one row
LayoutField(h) ==
  LET c == rename_map(StandardizeLabel(h))
  IN CASE c = N_STATE_UT -> TxtF("Goa")
       [] c = N_DISTRICT -> TxtF("North")
       [] c = N_YEAR -> NumF(2012)
       [] OTHER -> NumF(5)
Layouts ==
  { <<H_State, H_Murder>>,
    <<H_StatesUTs, H_District, H_Year, H_Murder, H_Rape>>,
    <<H_STATE_UT, H_Year, H_TotalIPC>>,
    <<H_District, H_Year, H_Murder>>,
    <<H_Murder>>,
    <<H_State, H_StatesUTs>>,
    <<H_State, H_Year, H_YEAR>>,
    <<H_State, H_District, H_district>>,
    <<H_State, H_TotalIPC, H_TotalCognizable>> }
LayoutFiles ==
  UNION { {[header |-> h, rows |-> <<>>],
           [header |-> h, rows |-> << [j \in 1..Len(h) |-> LayoutField(h[j])] >>]} :
          h \in Layouts }

\* state, district and year keys, also missing and non-numeric
KeyRows ==
  { <<s, d, y, NumF(4)>> :
      s \in {TxtF("Goa"), TxtF("Kerala"), EmptyF},
      d \in {TxtF("North"), TxtF("South"), EmptyF},
      y \in {NumF(2012), NumF(2013), TxtF("x")} }
KeyFiles ==
  {[header |-> <<H_StatesUTs, H_District, H_Year, H_TotalCognizable>>, rows |-> r] :
     r \in SeqsUpTo(KeyRows, MaxRows)}

\* crime counts: positive, zero, negative, missing and non-numeric (a text
\* other than the ones read_csv takes for a missing value)
CrimeRows ==
  { <<s, m, r>> :
      s \in {TxtF("Goa"), TxtF("Kerala")},
      m \in {NumF(5), NumF(0), NumF(-1), EmptyF, TxtF("x")},
      r \in {NumF(2)} }
CrimeFiles ==
  {[header |-> <<H_State, H_Murder, H_Rape>>, rows |-> r] :
     r \in SeqsUpTo(CrimeRows, MaxRows)}

\* totals per state and year, also negative and non-numeric, one row more than
\* the other files so that a state can have two years and two rows of one year
TotalRows ==
  { <<TxtF("Goa"), y, t>> : y \in {NumF(2013), NumF(2012)}, t \in {NumF(3), NumF(-1), TxtF("x")} }
    \cup { <<TxtF("Kerala"), y, NumF(3)>> : y \in {NumF(2013), NumF(2012)} }
TotalFiles ==
  {[header |-> <<H_StatesUTs, H_Year, H_TotalCognizable>>, rows |-> r] :
     r \in SeqsUpTo(TotalRows, MaxRows + 1)}

\* how many states the ranking keeps: .head(5)
TopN == 5
\* the year given to a file without a YEAR column
BackfillYear == 2012

\* one row per state for more states than the ranking keeps
StateNames == <<"Assam", "Bihar", "Goa", "Kerala", "Punjab", "Sikkim", "Tripura">>
RankFiles ==
  {[header |-> <<H_State, H_TotalIPC>>,
    rows |-> [i \in 1..(TopN + 1) |-> <<TxtF(StateNames[i]), t[i]>>]] :
     t \in [1..(TopN + 1) -> {NumF(1), NumF(2)}]}

\* an empty file: read_csv raises EmptyDataError
EmptyFile == [header |-> <<>>, rows |-> <<>>]

FileContents ==
  {EmptyFile} \cup HeaderFiles \cup LayoutFiles \cup KeyFiles \cup CrimeFiles
    \cup TotalFiles \cup RankFiles

(* ------------------------------- state --------------------------------- *)
VARIABLES
  pc,                \* the statement the script is at
  csv_files,         \* line 14
  selected_file,     \* line 20
  content,           \* the header and rows of the selected file on disk
  df,                \* the data frame
  states, selected_state,
  districts, selected_district,
  years, selected_year,
  crime_columns, selected_crimes,
  filtered_data,     \* line 83, the rows of df matching the selection
  total_selected,    \* line 96
  cleaned,           \* lines 102-103
  top_states,        \* line 119
  trend_data,        \* line 129
  out                \* the elements shown on the page, in order

vars == <<pc, csv_files, selected_file, content, df, states, selected_state, districts,
          selected_district, years, selected_year, crime_columns, selected_crimes,
          filtered_data, total_selected, cleaned, top_states, trend_data, out>>

selection == <<states, selected_state, districts, selected_district, years,
               selected_year, crime_columns, selected_crimes>>
views == <<filtered_data, total_selected, cleaned, top_states, trend_data>>

\* lines 7-10: page config, title and introduction come before any data
Init ==
  /\ pc = "list"
  /\ csv_files = {}
  /\ selected_file = <<>>
  /\ content = EmptyFile
  /\ df = NoDf
  /\ states = <<>> /\ selected_state = None
  /\ districts = <<>> /\ selected_district = None
  /\ years = <<>> /\ selected_year = None
  /\ crime_columns = <<>> /\ selected_crimes = <<>>
  /\ filtered_data = <<>>
  /\ total_selected = <<>>
  /\ cleaned = <<>>
  /\ top_states = <<>>
  /\ trend_data = <<>>
  /\ out = <<"title", "markdown">>

\* st.error(...) followed by st.stop()
ErrorStop(msg) == out' = Append(out, msg) /\ pc' = "stopped"

\* an exception nothing catches: the page shows it and the run ends
Raise(shown) == out' = shown \o <<"exception">> /\ pc' = "crashed"

\* st.selectbox(label, options): one of the options, None when there is none
Selectbox(options) == IF options = <<>> THEN {None} ELSE Range(options)

(* ----------------------------- load data ------------------------------- *)
\* lines 13-18
ListCsv ==
  /\ pc = "list"
  /\ \E listing \in SUBSET FileNames :
       csv_files' = {f \in listing : EndsWith(f, <<".","c","s","v">>)}
  /\ IF csv_files' = {}
     THEN ErrorStop("error:no_csv")
     ELSE pc' = "select_file" /\ out' = out
  /\ UNCHANGED <<selected_file, content, df, selection, views>>

\* lines 20-21
SelectFile ==
  /\ pc = "select_file"
  /\ selected_file' \in csv_files
  /\ pc' = "read"
  /\ UNCHANGED <<csv_files, content, df, selection, views, out>>

\* lines 24-28
ReadCsv ==
  /\ pc = "read"
  /\ content' \in FileContents
  /\ IF content' = EmptyFile
     THEN ErrorStop("error:read_failed") /\ df' = df
     ELSE df' = read_csv(content') /\ pc' = "standardize" /\ out' = out
  /\ UNCHANGED <<csv_files, selected_file, selection, views>>

(* ------------------------------ columns -------------------------------- *)
\* line 31
Standardize ==
  /\ pc = "standardize"
  /\ df' = [df EXCEPT !.columns = [j \in 1..Len(df.columns) |-> StandardizeLabel(df.columns[j])]]
  /\ pc' = "rename"
  /\ UNCHANGED <<csv_files, selected_file, content, selection, views, out>>

\* line 41
Rename ==
  /\ pc = "rename"
  /\ df' = [df EXCEPT !.columns = [j \in 1..Len(df.columns) |-> rename_map(df.columns[j])]]
  /\ pc' = "backfill"
  /\ UNCHANGED <<csv_files, selected_file, content, selection, views, out>>

\* variant: only YEAR is backfilled
BackfillDf_YearOnly(d) ==
  IF ~HasCol(d, N_YEAR) THEN AddColumn(d, N_YEAR, Num(BackfillYear), "num") ELSE d

\* variant: DISTRICT is set to 'ALL' whether or not the table has the column
BackfillDf_Unguarded(d) ==
  LET d1 == IF HasCol(d, N_DISTRICT)
            THEN [d EXCEPT !.rows = [i \in 1..Len(d.rows) |->
                    [j \in 1..Len(d.columns) |->
                       IF d.columns[j] = N_DISTRICT THEN Str("ALL") ELSE d.rows[i][j]]]]
            ELSE AddColumn(d, N_DISTRICT, Str("ALL"), "obj")
  IN IF ~HasCol(d1, N_YEAR) THEN AddColumn(d1, N_YEAR, Num(BackfillYear), "num") ELSE d1

\* lines 44-49
BackfillDf(d) ==
  LET d1 == IF ~HasCol(d, N_DISTRICT) THEN AddColumn(d, N_DISTRICT, Str("ALL"), "obj") ELSE d
  IN IF ~HasCol(d1, N_YEAR) THEN AddColumn(d1, N_YEAR, Num(BackfillYear), "num") ELSE d1

Backfill ==
  /\ pc = "backfill"
  /\ df' = BackfillDf(df)
  /\ pc' = "validate"
  /\ UNCHANGED <<csv_files, selected_file, content, selection, views, out>>

\* lines 52-53
required_columns == {N_STATE_UT, N_DISTRICT, N_YEAR}
MissingRequired(d) == ~(required_columns \subseteq Range(d.columns))

\* variant: the error is shown but st.stop() is not called
Validate_NoStop ==
  /\ pc = "validate"
  /\ out' = (IF MissingRequired(df) THEN Append(out, "error:missing_columns") ELSE out)
  /\ pc' = "coerce_year"
  /\ UNCHANGED <<csv_files, selected_file, content, df, selection, views>>

\* lines 52-55
Validate ==
  /\ pc = "validate"
  /\ IF MissingRequired(df)
     THEN ErrorStop("error:missing_columns")
     ELSE pc' = "coerce_year" /\ out' = out
  /\ UNCHANGED <<csv_files, selected_file, content, df, selection, views>>

(* --------------------------- sidebar filters --------------------------- *)
\* lines 58-62: the sidebar header, then YEAR made numeric
CoerceYear ==
  /\ pc = "coerce_year"
  /\ IF IsSeries(df, N_YEAR)
     THEN /\ df' = CoerceColumn(df, N_YEAR)
          /\ out' = Append(out, "header:filters")
          /\ pc' = "dropna"
     ELSE Raise(Append(out, "header:filters")) /\ df' = df
  /\ UNCHANGED <<csv_files, selected_file, content, selection, views>>

\* variant: how='all', a row goes only when every column of subset is NaN
dropna_all(d, subset) ==
  [d EXCEPT !.rows = SelectSeq(d.rows, LAMBDA r :
      \E j \in 1..Len(d.columns) : d.columns[j] \in subset /\ r[j] # NaN)]

\* df.dropna(subset=...): the rows with no NaN in any column labelled in subset
dropna(d, subset) ==
  [d EXCEPT !.rows = SelectSeq(d.rows, LAMBDA r :
      \A j \in 1..Len(d.columns) : d.columns[j] \in subset => r[j] # NaN)]

\* line 63
DropNa ==
  /\ pc = "dropna"
  /\ df' = dropna(df, required_columns)
  /\ pc' = "states"
  /\ UNCHANGED <<csv_files, selected_file, content, selection, views, out>>

\* Series.unique() of column j
Unique(rows, j) == {rows[i][j] : i \in 1..Len(rows)}

\* line 70: df[df['STATE/UT'] == selected_state]
StateData(d, state) == SelectSeq(d.rows, LAMBDA r : r[Col(d, N_STATE_UT)] = state)

\* lines 66-67
States ==
  /\ pc = "states"
  /\ IF IsSeries(df, N_STATE_UT)
     THEN /\ states' = sorted(Unique(df.rows, Col(df, N_STATE_UT)))
          /\ selected_state' \in Selectbox(states')
          /\ out' = Append(out, "selectbox:state")
          /\ pc' = "districts"
     ELSE Raise(out) /\ UNCHANGED <<states, selected_state>>
  /\ UNCHANGED <<csv_files, selected_file, content, df, districts, selected_district, years,
                 selected_year, crime_columns, selected_crimes, views>>

\* lines 70-73
Districts ==
  /\ pc = "districts"
  /\ IF IsSeries(df, N_DISTRICT)
     THEN /\ districts' = sorted(Unique(StateData(df, selected_state), Col(df, N_DISTRICT)))
          /\ selected_district' \in Selectbox(districts')
          /\ out' = Append(out, "selectbox:district")
          /\ pc' = "years"
     ELSE Raise(out) /\ UNCHANGED <<districts, selected_district>>
  /\ UNCHANGED <<csv_files, selected_file, content, df, states, selected_state, years,
                 selected_year, crime_columns, selected_crimes, views>>

\* lines 75-76
Years ==
  /\ pc = "years"
  /\ years' = sorted(Unique(StateData(df, selected_state), Col(df, N_YEAR)))
  /\ selected_year' \in Selectbox(years')
  /\ out' = Append(out, "selectbox:year")
  /\ pc' = "crimes"
  /\ UNCHANGED <<csv_files, selected_file, content, df, states, selected_state, districts,
                 selected_district, crime_columns, selected_crimes, views>>

\* the labels of a list, each once, in order of first occurrence
RECURSIVE Distinct(_)
Distinct(q) ==
  IF q = <<>> THEN <<>>
  ELSE LET front == Distinct(SubSeq(q, 1, Len(q) - 1))
       IN IF q[Len(q)] \in Range(front) THEN front ELSE Append(front, q[Len(q)])

\* line 78
CrimeColumns(d) == SelectSeq(d.columns, LAMBDA c : c \notin required_columns)

\* line 79: the default selection of the multiselect
valid_defaults(cols) == SelectSeq(<<N_MURDER, N_RAPE>>, LAMBDA c : c \in Range(cols))

\* st.multiselect: any of the offered labels, each at most once
Multiselect(options) ==
  {SelectSeq(Distinct(options), LAMBDA c : c \in chosen) : chosen \in SUBSET Range(options)}

\* lines 78-80
Crimes ==
  /\ pc = "crimes"
  /\ crime_columns' = CrimeColumns(df)
  /\ selected_crimes' \in Multiselect(crime_columns') \cup {valid_defaults(crime_columns')}
  /\ out' = Append(out, "multiselect:crimes")
  /\ pc' = "filter"
  /\ UNCHANGED <<csv_files, selected_file, content, df, states, selected_state, districts,
                 selected_district, years, selected_year, views>>

(* ---------------------------- filtered data ---------------------------- *)
\* variant: the year is not compared
FilterRows_NoYear(d, state, district, year) ==
  SelectSeq(d.rows, LAMBDA r :
    /\ r[Col(d, N_STATE_UT)] = state
    /\ r[Col(d, N_DISTRICT)] = district)

\* lines 83-87
FilterRows(d, state, district, year) ==
  SelectSeq(d.rows, LAMBDA r :
    /\ r[Col(d, N_STATE_UT)] = state
    /\ r[Col(d, N_DISTRICT)] = district
    /\ r[Col(d, N_YEAR)] = year)

Filter ==
  /\ pc = "filter"
  /\ filtered_data' = FilterRows(df, selected_state, selected_district, selected_year)
  /\ pc' = "render_filtered"
  /\ UNCHANGED <<csv_files, selected_file, content, df, selection, total_selected, cleaned,
                 top_states, trend_data, out>>

\* the sum of column j, NaN skipped
RECURSIVE SumCol(_, _)
SumCol(rows, j) ==
  IF rows = <<>> THEN 0
  ELSE (IF Head(rows)[j].k = "num" THEN Head(rows)[j].n ELSE 0) + SumCol(Tail(rows), j)

\* the positions of the columns that frame[labels] keeps
Picked(d, labels) == {j \in 1..Len(d.columns) : d.columns[j] \in Range(labels)}

\* the increasing sequence of a set of positions
RECURSIVE Ascending(_)
Ascending(S) ==
  IF S = {} THEN <<>>
  ELSE LET m == CHOOSE x \in S : \A y \in S : x <= y IN <<m>> \o Ascending(S \ {m})

\* line 96: frame[labels].sum(numeric_only=True), one entry per numeric column
SumNumericOnly(d, rows, labels) ==
  LET js == Ascending({j \in Picked(d, labels) : d.dtypes[j] = "num"})
  IN [i \in 1..Len(js) |-> [name |-> d.columns[js[i]], value |-> Num(SumCol(rows, js[i]))]]

\* lines 102-103: to_numeric, dropna, then the entries above zero
Cleaned(totals) ==
  LET numeric == [i \in 1..Len(totals) |-> [totals[i] EXCEPT !.value = to_numeric(@)]]
      present == SelectSeq(numeric, LAMBDA e : e.value # NaN)
  IN SelectSeq(present, LAMBDA e : e.value.n > 0)

\* variant: the selected crime types are not looked at
ShowFiltered_RowsOnly(rows, crimes) == rows # <<>>

\* line 91
ShowFiltered(rows, crimes) == rows # <<>> /\ crimes # <<>>

\* lines 90-112
RenderFiltered ==
  /\ pc = "render_filtered"
  /\ IF ShowFiltered(filtered_data, selected_crimes)
     THEN /\ total_selected' = SumNumericOnly(df, filtered_data, selected_crimes)
          /\ cleaned' = Cleaned(total_selected')
          /\ out' = out \o <<"subheader:crime_data", "dataframe", "subheader:totals",
                             "write:totals", "subheader:pie",
                             IF cleaned' # <<>> THEN "pyplot:pie" ELSE "info:no_pie">>
     ELSE /\ out' = out \o <<"subheader:crime_data", "warning:no_data">>
          /\ UNCHANGED <<total_selected, cleaned>>
  /\ pc' = "charts"
  /\ UNCHANGED <<csv_files, selected_file, content, df, selection, filtered_data, top_states,
                 trend_data>>

(* ------------------------------- charts -------------------------------- *)
\* frame.groupby(key)[value].sum(): one entry per key that is not NaN, in key
\* order, holding the sum of the value column over the key's rows
GroupBySum(d, rows, key, value) ==
  LET keys == sorted(Unique(rows, Col(d, key)) \ {NaN})
  IN [i \in 1..Len(keys) |->
        [key |-> keys[i],
         value |-> Num(SumCol(SelectSeq(rows, LAMBDA r : r[Col(d, key)] = keys[i]),
                              Col(d, value)))]]

\* .sort_values(ascending=False): the default sort is not stable, so entries with
\* equal values come in any order
RECURSIVE SortValuesDescending(_)
SortValuesDescending(S) ==
  IF S = {} THEN {<<>>}
  ELSE UNION { {<<m>> \o rest : rest \in SortValuesDescending(S \ {m})} :
               m \in {x \in S : \A y \in S : y.value.n <= x.value.n} }

\* .sort_index(): ascending by key
SortIndex(series) ==
  LET keys == sorted({series[i].key : i \in 1..Len(series)})
  IN [i \in 1..Len(keys) |-> CHOOSE e \in Range(series) : e.key = keys[i]]

\* .head(n)
head(q, n) == SubSeq(q, 1, IF Len(q) < n THEN Len(q) ELSE n)

\* variant: sorted ascending (ascending=False left out)
TopStates_Ascending(d) ==
  {head([i \in 1..Len(order) |-> order[Len(order) + 1 - i]], TopN) :
     order \in SortValuesDescending(Range(GroupBySum(d, d.rows, N_STATE_UT, N_TOTAL_IPC)))}

\* line 119
TopStates(d) ==
  {head(order, TopN) :
     order \in SortValuesDescending(Range(GroupBySum(d, d.rows, N_STATE_UT, N_TOTAL_IPC)))}

\* variant: the rows of every state are taken
TrendData_AllStates(d, state) ==
  LET numeric == CoerceColumn(d, N_TOTAL_IPC)
  IN SortIndex(GroupBySum(numeric, numeric.rows, N_YEAR, N_TOTAL_IPC))

\* lines 127-129
TrendData(d, state) ==
  LET trend == [d EXCEPT !.rows = StateData(d, state)]
      numeric == CoerceColumn(trend, N_TOTAL_IPC)
  IN SortIndex(GroupBySum(numeric, numeric.rows, N_YEAR, N_TOTAL_IPC))

\* variant: the charts are attempted whatever the columns
HasTotal_Always(d) == TRUE

\* line 115
HasTotal(d) == HasCol(d, N_TOTAL_IPC)

\* lines 115-123
RenderTopStates ==
  /\ pc = "charts"
  /\ HasTotal(df)
  /\ IF IsSeries(df, N_TOTAL_IPC)
     THEN /\ df' = CoerceColumn(df, N_TOTAL_IPC)
          /\ top_states' \in TopStates(df')
          /\ out' = out \o <<"subheader:top_states",
                             IF top_states' # <<>> THEN "bar_chart" ELSE "warning:no_ranking">>
          /\ pc' = "trend"
     ELSE /\ Raise(Append(out, "subheader:top_states"))
          /\ UNCHANGED <<df, top_states>>
  /\ UNCHANGED <<csv_files, selected_file, content, selection, filtered_data, total_selected,
                 cleaned, trend_data>>

\* lines 125-133
RenderTrend ==
  /\ pc = "trend"
  /\ trend_data' = TrendData(df, selected_state)
  /\ out' = out \o <<"subheader:trend",
                     IF trend_data' # <<>> THEN "line_chart" ELSE "warning:no_trend">>
  /\ pc' = "done"
  /\ UNCHANGED <<csv_files, selected_file, content, df, selection, filtered_data, total_selected,
                 cleaned, top_states>>

\* lines 134-135
WarnNoTotal ==
  /\ pc = "charts"
  /\ ~HasTotal(df)
  /\ out' = Append(out, "warning:no_total_column")
  /\ pc' = "done"
  /\ UNCHANGED <<csv_files, selected_file, content, df, selection, views>>

Next ==
  \/ ListCsv \/ SelectFile \/ ReadCsv
  \/ Standardize \/ Rename \/ Backfill \/ Validate
  \/ CoerceYear \/ DropNa \/ States \/ Districts \/ Years \/ Crimes
  \/ Filter \/ RenderFiltered
  \/ RenderTopStates \/ RenderTrend \/ WarnNoTotal

Spec == Init /\ [][Next]_vars

(* ======================= properties of the run ========================= *)
Last(q) == q[Len(q)]
Shown(element) == element \in Range(out)
ErrorMessages == {"error:no_csv", "error:read_failed", "error:missing_columns"}
LowerLetters == Range(LowerCase)
ErrorsShown == {i \in 1..Len(out) : out[i] \in ErrorMessages}
\* the statements before the data frame exists, and up to the validator
BeforeRead == {"list", "select_file", "read"}
UpToValidate == BeforeRead \cup {"standardize", "rename", "backfill", "validate"}
\* column j of the table is column j of the file (the backfilled ones come after)
FromFile(j) == j <= Len(content.header)

(* C1: each of the three fatal conditions (no .csv file, the selected file   *)
(* does not parse, a dimension column still missing after backfill) stops    *)
(* the run right after exactly one error message: the error is the last      *)
(* element shown, no filter option has been computed, no view has been       *)
(* rendered or replaced by a message, and nothing runs afterwards.           *)
C1_FatalHalt ==
  /\ (pc # "list" /\ csv_files = {}) => (pc = "stopped" /\ Last(out) = "error:no_csv")
  /\ (pc \notin BeforeRead /\ csv_files # {} /\ content = EmptyFile)
       => (pc = "stopped" /\ Last(out) = "error:read_failed")
  /\ (pc \notin UpToValidate /\ content # EmptyFile
        /\ ~({N_STATE_UT, N_DISTRICT, N_YEAR} \subseteq Range(df.columns)))
       => (pc = "stopped" /\ Last(out) = "error:missing_columns")
  /\ pc = "stopped" =>
       /\ out \in {<<"title", "markdown", e>> : e \in ErrorMessages}
       /\ Cardinality(ErrorsShown) = 1
       /\ states = <<>> /\ districts = <<>> /\ years = <<>> /\ crime_columns = <<>>
       /\ selected_state = None /\ selected_district = None /\ selected_year = None
       /\ selected_crimes = <<>>
       /\ filtered_data = <<>> /\ total_selected = <<>> /\ cleaned = <<>>
       /\ top_states = <<>> /\ trend_data = <<>>
       /\ ~ENABLED Next
  /\ pc # "stopped" => ErrorsShown = {}

C1_Witness ==
  /\ pc = "stopped"
  /\ Last(out) = "error:missing_columns"
  /\ content.header = <<H_District, H_Year, H_Murder>>
  /\ Len(content.rows) = 1

(* C10: the validator stops the run exactly when no header of the file       *)
(* cleans up to STATE/UT, STATES/UTS or STATE; a file without DISTRICT or    *)
(* YEAR passes the validator.                                                *)
C10_ValidatorHaltsIffNoState ==
  (pc \notin UpToValidate /\ Last(out) \notin {"error:no_csv", "error:read_failed"})
    => ( (pc = "stopped" /\ Last(out) = "error:missing_columns")
           <=> ~(\E j \in 1..Len(content.header) :
                   StandardizeLabel(content.header[j]) \in {N_STATE_UT, N_STATES_UTS, N_STATE}) )

C10_Witness ==
  /\ pc = "coerce_year"
  /\ content.header = <<H_State, H_Murder>>
  /\ Len(content.rows) = 1

(* C5: the backfill step leaves a table with a DISTRICT and a YEAR column:   *)
(* a column the table lacked is added with 'ALL' (DISTRICT) or 2012 (YEAR)   *)
(* in every row, and every column the table already had, DISTRICT and YEAR   *)
(* included, keeps its label and its values.                                 *)
C5_Backfill ==
  [][ pc = "backfill" =>
        /\ HasCol(df', N_DISTRICT) /\ HasCol(df', N_YEAR)
        /\ Len(df'.rows) = Len(df.rows)
        /\ Len(df'.columns) = Len(df.columns)
                                + (IF N_DISTRICT \in Range(df.columns) THEN 0 ELSE 1)
                                + (IF N_YEAR \in Range(df.columns) THEN 0 ELSE 1)
        /\ \A j \in 1..Len(df.columns) :
             /\ df'.columns[j] = df.columns[j]
             /\ \A i \in 1..Len(df.rows) : df'.rows[i][j] = df.rows[i][j]
        /\ \A j \in (Len(df.columns) + 1)..Len(df'.columns) : \A i \in 1..Len(df'.rows) :
             /\ df'.columns[j] = N_DISTRICT => df'.rows[i][j] = Str("ALL")
             /\ df'.columns[j] = N_YEAR => df'.rows[i][j] = Num(2012)
             /\ df'.columns[j] \in {N_DISTRICT, N_YEAR} ]_vars

C5_Witness ==
  /\ pc = "validate"
  /\ content.header = <<H_State, H_Murder>>
  /\ df.columns = <<N_STATE_UT, N_MURDER, N_DISTRICT, N_YEAR>>
  /\ df.rows = << <<Str("Goa"), Num(5), Str("ALL"), Num(2012)>> >>

(* C6: after the label clean-up and the renaming, and still after the        *)
(* backfill that follows, every column label is upper-case, has no leading   *)
(* or trailing whitespace and holds no newline or carriage return, and the   *)
(* headers that clean up to STATES/UTS, STATE and TOTAL COGNIZABLE IPC       *)
(* CRIMES are labelled STATE/UT, STATE/UT and TOTAL IPC CRIMES.              *)
C6_ColumnsNormalized ==
  pc \in {"backfill", "validate"} =>
    \A j \in 1..Len(df.columns) :
      LET c == df.columns[j]
      IN /\ \A i \in 1..Len(c) : c[i] \notin LowerLetters /\ c[i] \notin {"\n", "\r"}
         /\ c # <<>> => (c[1] \notin Whitespace /\ c[Len(c)] \notin Whitespace)
         /\ c \notin {N_STATES_UTS, N_STATE, N_TOTAL_COGNIZABLE}
         /\ j <= Len(content.header) =>
              /\ content.header[j] \in {H_StatesUTs, H_State, H_STATE_UT} => c = N_STATE_UT
              /\ content.header[j] \in {H_TotalCognizable, H_TotalIPC} => c = N_TOTAL_IPC

C6_Witness ==
  /\ pc = "backfill"
  /\ content.header = <<H_State, <<"\r", "a", "\n">> >>
  /\ df.columns = <<N_STATE_UT, <<"A">> >>

\* the rows of the file that have a state, a district and a numeric year
GoodRows ==
  {i \in 1..Len(content.rows) :
     \A j \in 1..Len(content.header) :
       /\ df.columns[j] \in {N_STATE_UT, N_DISTRICT} => content.rows[i][j].k # "empty"
       /\ df.columns[j] = N_YEAR => content.rows[i][j].k = "numtxt"}

\* the sum over rows I of the file of the numbers in column j, other text as nothing
RECURSIVE FieldSum(_, _)
FieldSum(I, j) ==
  IF I = {} THEN 0
  ELSE LET i == CHOOSE x \in I : TRUE
       IN (IF content.rows[i][j].k = "numtxt" THEN content.rows[i][j].n ELSE 0)
            + FieldSum(I \ {i}, j)

Occurrences(q, v) == Cardinality({i \in 1..Len(q) : q[i] = v})

(* C4: from the moment the state list is computed to the end of the run      *)
(* every row of the table has a STATE/UT, a DISTRICT and a numeric YEAR: the *)
(* rows of the file lacking one of them, or with a YEAR that is no number,   *)
(* are gone (and only those), so no option and no view comes from such a row.*)
C4_RowsClean ==
  Shown("selectbox:state") =>
    /\ \A i \in 1..Len(df.rows) : \A j \in 1..Len(df.columns) :
         /\ df.columns[j] \in {N_STATE_UT, N_DISTRICT, N_YEAR} => df.rows[i][j].k \notin {"nan", "none"}
         /\ df.columns[j] = N_YEAR => df.rows[i][j].k = "num"
    /\ Len(df.rows) = Cardinality(GoodRows)
    /\ \A x \in Range(states) \cup Range(districts) : x.k \in {"str", "numstr", "num"}
    /\ \A y \in Range(years) : y.k = "num"
    /\ \A e \in Range(top_states) : e.key.k \in {"str", "numstr", "num"}
    /\ \A e \in Range(trend_data) : e.key.k = "num"

C4_Witness ==
  /\ pc = "done"
  /\ content.rows = << <<TxtF("Goa"), TxtF("North"), TxtF("x"), NumF(4)>>,
                       <<TxtF("Goa"), TxtF("South"), NumF(2013), NumF(4)>> >>
  /\ Len(df.rows) = 1
  /\ districts = <<Str("South")>>
  /\ years = <<Num(2013)>>

(* C3: the filtered rows are exactly the rows of the table whose STATE/UT,   *)
(* DISTRICT and YEAR all equal the selected state, district and year: each   *)
(* such row as often as the table holds it, and no other row.                *)
C3_FilterExact ==
  pc \in {"render_filtered", "charts"} =>
    LET matches(r) == /\ r[Col(df, N_STATE_UT)] = selected_state
                      /\ r[Col(df, N_DISTRICT)] = selected_district
                      /\ r[Col(df, N_YEAR)] = selected_year
    IN /\ \A r \in Range(filtered_data) : matches(r) /\ r \in Range(df.rows)
       /\ \A r \in Range(df.rows) :
            matches(r) => Occurrences(filtered_data, r) = Occurrences(df.rows, r)

C3_Witness ==
  /\ pc = "render_filtered"
  /\ Len(df.rows) = 2
  /\ Len(filtered_data) = 1
  /\ df.rows[1][1] = df.rows[2][1]
  /\ df.rows[1][2] = df.rows[2][2]
  /\ df.rows[1][3] # df.rows[2][3]
  /\ df.columns[3] = N_YEAR

(* C7: when the table has a TOTAL IPC CRIMES column the ranking holds at     *)
(* most 5 entries (all states when there are fewer), each for another state  *)
(* of the table, each valued with the sum of the numeric totals of that      *)
(* state's rows, in descending order of value, and no state left out has a   *)
(* larger sum than a state in the ranking.                                   *)
C7_TopStates ==
  (pc \in {"trend", "done"} /\ HasCol(df, N_TOTAL_IPC)) =>
    LET jS == Col(df, N_STATE_UT)
        all == {df.rows[i][jS] : i \in 1..Len(df.rows)}
        kept == {top_states[i].key : i \in 1..Len(top_states)}
        jT == Col(df, N_TOTAL_IPC)
        good == GoodRows
        total(s) == FieldSum({i \in good : content.rows[i][jS].s = s.s}, jT)
    IN /\ Len(top_states) <= 5
       /\ Len(top_states) = (IF Cardinality(all) < 5 THEN Cardinality(all) ELSE 5)
       /\ Cardinality(kept) = Len(top_states)
       /\ kept \subseteq all
       /\ \A i \in 1..Len(top_states) : top_states[i].value = Num(total(top_states[i].key))
       /\ \A i, j \in 1..Len(top_states) :
            i < j => top_states[i].value.n >= top_states[j].value.n
       /\ \A s \in all \ kept : \A i \in 1..Len(top_states) : total(s) <= top_states[i].value.n
       /\ Shown("subheader:top_states")

C7_Witness ==
  /\ pc = "done"
  /\ Len(df.rows) = 6
  /\ Len(top_states) = 5
  /\ top_states[1].value = Num(2)
  /\ top_states[5].value = Num(1)
  /\ top_states[5].key = Str("Tripura") \/ top_states[5].key = Str("Sikkim")

(* C8: when the table has a TOTAL IPC CRIMES column the trend of the         *)
(* selected state has one entry for each year of that state's rows and none  *)
(* for another year, each valued with the sum of the numeric totals of the   *)
(* state's rows of that year, in strictly ascending order of year.           *)
C8_Trend ==
  (pc = "done" /\ HasCol(df, N_TOTAL_IPC)) =>
    LET jS == Col(df, N_STATE_UT)
        jY == Col(df, N_YEAR)
        ofState == {df.rows[i][jY] : i \in {x \in 1..Len(df.rows) : df.rows[x][jS] = selected_state}}
        jT == Col(df, N_TOTAL_IPC)
        good == GoodRows
        total(y) == FieldSum({i \in good :
                                /\ content.rows[i][jS].s = selected_state.s
                                /\ IF FromFile(jY) THEN content.rows[i][jY].n = y.n
                                                   ELSE y.n = 2012},
                             jT)
    IN /\ {trend_data[i].key : i \in 1..Len(trend_data)} = ofState
       /\ Len(trend_data) = Cardinality(ofState)
       /\ \A i \in 1..Len(trend_data) : trend_data[i].value = Num(total(trend_data[i].key))
       /\ \A i, j \in 1..Len(trend_data) : i < j => trend_data[i].key.n < trend_data[j].key.n
       /\ Shown("subheader:trend")

C8_Witness ==
  /\ pc = "done"
  /\ content.rows = << <<TxtF("Goa"), NumF(2013), NumF(3)>>,
                       <<TxtF("Goa"), NumF(2012), NumF(-1)>>,
                       <<TxtF("Goa"), NumF(2013), TxtF("x")>> >>
  /\ selected_state = Str("Goa")
  /\ trend_data = << [key |-> Num(2012), value |-> Num(-1)],
                     [key |-> Num(2013), value |-> Num(3)] >>

\* the table without the columns labelled name
DropColumn(d, name) ==
  LET js == Ascending({j \in 1..Len(d.columns) : d.columns[j] # name})
  IN [columns |-> [i \in 1..Len(js) |-> d.columns[js[i]]],
      rows |-> [r \in 1..Len(d.rows) |-> [i \in 1..Len(js) |-> d.rows[r][js[i]]]],
      dtypes |-> [i \in 1..Len(js) |-> d.dtypes[js[i]]]]

\* rows restricted to the columns labelled in labels
Project(d, rows, labels) ==
  LET js == Ascending(Picked(d, labels))
  IN [r \in 1..Len(rows) |-> [i \in 1..Len(js) |-> rows[r][js[i]]]]

C2_ViewBlocks ==
  pc = "done" =>
    LET show == filtered_data # <<>> /\ selected_crimes # <<>>
        positive == \E e \in Range(total_selected) : e.value.n > 0
        total == HasCol(df, N_TOTAL_IPC)
        ofState == \E i \in 1..Len(df.rows) : df.rows[i][Col(df, N_STATE_UT)] = selected_state
    IN /\ Shown("dataframe") <=> show
       /\ Shown("write:totals") <=> show
       /\ Shown("warning:no_data") <=> ~show
       /\ Shown("pyplot:pie") <=> (show /\ positive)
       /\ Shown("info:no_pie") <=> (show /\ ~positive)
       /\ ~show => (total_selected = <<>> /\ cleaned = <<>>)
       /\ Shown("bar_chart") <=> (total /\ df.rows # <<>>)
       /\ Shown("warning:no_ranking") <=> (total /\ df.rows = <<>>)
       /\ Shown("line_chart") <=> (total /\ ofState)
       /\ Shown("warning:no_trend") <=> (total /\ ~ofState)
       /\ Shown("warning:no_total_column") <=> ~total

C2_Witness ==
  /\ pc = "done"
  /\ filtered_data = <<>>
  /\ selected_crimes # <<>>
  /\ Shown("warning:no_data")
  /\ Shown("bar_chart")
  /\ Shown("line_chart")

(* C2 as stated: each of the four views is resolved on its own, so a run     *)
(* that reaches the end shows the table or its notice, the pie chart or its  *)
(* notice, the ranking or a warning for it, and the trend or a warning for   *)
(* it, whatever happened to the other views.                                 *)
C2_EachViewOnItsOwn ==
  pc = "done" =>
    /\ Shown("dataframe") \/ Shown("warning:no_data")
    /\ Shown("pyplot:pie") \/ Shown("info:no_pie")
    /\ Shown("bar_chart") \/ Shown("warning:no_ranking") \/ Shown("warning:no_total_column")
    /\ Shown("line_chart") \/ Shown("warning:no_trend") \/ Shown("warning:no_total_column")

====
